---- MODULE Spec2Model ----
(***************************************************************************)
(* Focus Nudge backend: license store (backend/database.js), license       *)
(* service (backend/licenseService.js), webhook handlers                   *)
(* (backend/webhookHandlers.js) and the HTTP handlers of the server.       *)
(*                                                                         *)
(* Five specifications share the variables:                                *)
(*   Spec      the server: requests interleave at their awaits on Stripe   *)
(*   SpecSvc   licenseService.js applied to a license Map it is handed     *)
(*   SpecDb    database.js under the writes it offers                      *)
(*   SpecValid the license checks applied to an arbitrary stored row       *)
(*   SpecLimit the rate limiting middleware mounted on /api/               *)
(***************************************************************************)
EXTENDS Integers, Sequences, FiniteSets, TLC

VARIABLES
    db,         \* SQLite table licenses: userId -> row (DOMAIN = stored userIds)
    clock,      \* Date.now(), milliseconds
    subStatus,  \* Stripe: current status of every subscription
    reqs,       \* HTTP requests: position, locals, Stripe calls made, response
    licenses,   \* the Map handed to licenseService.js (SpecSvc)
    hist,       \* the licenseService.js calls made so far (SpecSvc)
    verdict,    \* outcome of the latest evaluation of a stored row (SpecValid)
    limiter     \* apiLimiter: hits per IP in the window, latest decision (SpecLimit)

vars == <<db, clock, subStatus, reqs, licenses, hist, verdict, limiter>>

(***************************************************************************)
(* Bounds                                                                  *)
(***************************************************************************)
MaxSec == 1      \* the clock runs over the seconds 0..MaxSec
MaxRand == 2     \* Math.random() takes MaxRand values
MaxHist == 2     \* licenseService.js calls made in a run of SpecSvc
MaxExpiry == 2   \* expiresAt runs over -1..MaxExpiry seconds

(***************************************************************************)
(* Values                                                                  *)
(***************************************************************************)
Null == "null"                        \* JS null / undefined of a string value
NoKey == <<>>                         \* no licenseKey
JsNull == <<>>                        \* SQL NULL integer / JS null Date
NullLicense == [null |-> TRUE]        \* JS null where a license object is expected
EmptyTable == [u \in {} |-> Null]     \* the licenses table without rows
NewMap == [defined |-> TRUE, entries |-> <<>>]         \* new Map()
UndefinedMap == [defined |-> FALSE, entries |-> <<>>]  \* a licenses argument left out
MsPerSec == 1000

Users == {"U1", "U2"}
Customers == {"C1", "C2"}
Subs == {"S1", "S2"}
LicenseStatuses == {"active", "canceled"}

ClockValues ==
    {s * MsPerSec + d : s \in 0..MaxSec, d \in {MsPerSec - 1, MsPerSec}}

\* Date.now() moves forward
Tick ==
    /\ \E t \in ClockValues :
          /\ t > clock
          /\ \A t2 \in ClockValues : t2 > clock => t <= t2
          /\ clock' = t
    /\ UNCHANGED <<db, subStatus, reqs, licenses, hist, verdict, limiter>>

(***************************************************************************)
(* backend/database.js                                                     *)
(***************************************************************************)
rowToLicense(r) ==
    [licenseKey |-> r.licenseKey,
     stripeCustomerId |-> r.stripeCustomerId,
     stripeSubscriptionId |-> r.stripeSubscriptionId,
     status |-> r.status,
     \* row.expiresAt ? new Date(row.expiresAt * 1000) : null  (0 is falsy)
     expiresAt |-> IF r.expiresAt # JsNull /\ r.expiresAt[1] # 0
                   THEN <<r.expiresAt[1] * MsPerSec>>
                   ELSE JsNull]

getLicenseByUserId(table, userId) ==
    IF userId \in DOMAIN table THEN rowToLicense(table[userId]) ELSE NullLicense

getLicenseByLicenseKey(table, licenseKey) ==
    IF \E u \in DOMAIN table : table[u].licenseKey = licenseKey
    THEN rowToLicense(table[CHOOSE u \in DOMAIN table :
                                table[u].licenseKey = licenseKey])
    ELSE NullLicense

\* SELECT userId ... WHERE stripeCustomerId = ? LIMIT 1: any one matching row
getUserIdByCustomerId(table, customerId) ==
    IF \E u \in DOMAIN table : table[u].stripeCustomerId = customerId
    THEN {u \in DOMAIN table : table[u].stripeCustomerId = customerId}
    ELSE {Null}

\* a status change that inserts a row for a userId that has none
updateLicenseStatus_insertsMissing(table, userId, status, now) ==
    [u \in DOMAIN table \cup {userId} |->
        IF u = userId
        THEN [licenseKey |-> IF u \in DOMAIN table THEN table[u].licenseKey
                             ELSE <<"fn", now, 0>>,
              stripeCustomerId |-> IF u \in DOMAIN table
                                   THEN table[u].stripeCustomerId ELSE Null,
              stripeSubscriptionId |-> IF u \in DOMAIN table
                                       THEN table[u].stripeSubscriptionId ELSE Null,
              status |-> status,
              expiresAt |-> IF u \in DOMAIN table THEN table[u].expiresAt
                            ELSE JsNull,
              updatedAt |-> now \div MsPerSec]
        ELSE table[u]]

\* a status change that flips a record already in the requested status
updateLicenseStatus_flips(table, userId, status, now) ==
    IF userId \in DOMAIN table
    THEN [table EXCEPT ![userId].status =
                          IF table[userId].status # status THEN status
                          ELSE IF status = "active" THEN "canceled" ELSE "active",
                       ![userId].updatedAt = now \div MsPerSec]
    ELSE table

\* a cancellation carried out as DELETE FROM licenses WHERE userId = ?
updateLicenseStatus_deletesCanceled(table, userId, status, now) ==
    IF userId \in DOMAIN table /\ status = "canceled"
    THEN [u \in DOMAIN table \ {userId} |-> table[u]]
    ELSE IF userId \in DOMAIN table
    THEN [table EXCEPT ![userId].status = status,
                       ![userId].updatedAt = now \div MsPerSec]
    ELSE table

\* UPDATE licenses SET status = ?, updatedAt = ? WHERE userId = ?
updateLicenseStatus(table, userId, status, now) ==
    IF userId \in DOMAIN table
    THEN [table EXCEPT ![userId].status = status,
                       ![userId].updatedAt = now \div MsPerSec]
    ELSE table

\* the upsert on a table whose licenseKey column is not UNIQUE
upsertLicense_keyNotUnique(table, userId, licenseKey, customerId, subscriptionId, status, now) ==
    [threw |-> FALSE,
     table |->
        [u \in DOMAIN table \cup {userId} |->
            IF u = userId
            THEN [licenseKey |-> licenseKey,
                  stripeCustomerId |-> customerId,
                  stripeSubscriptionId |-> subscriptionId,
                  status |-> status,
                  expiresAt |-> IF userId \in DOMAIN table
                                THEN table[userId].expiresAt ELSE JsNull,
                  updatedAt |-> now \div MsPerSec]
            ELSE table[u]]]

\* a plain INSERT, without ON CONFLICT(userId) DO UPDATE: a userId that has a
\* row makes the statement fail
upsertLicense_insertOnly(table, userId, licenseKey, customerId, subscriptionId, status, now) ==
    IF \/ userId \in DOMAIN table
       \/ \E u \in DOMAIN table : table[u].licenseKey = licenseKey
    THEN [threw |-> TRUE, table |-> table]
    ELSE [threw |-> FALSE,
          table |->
            [u \in DOMAIN table \cup {userId} |->
                IF u = userId
                THEN [licenseKey |-> licenseKey,
                      stripeCustomerId |-> customerId,
                      stripeSubscriptionId |-> subscriptionId,
                      status |-> status,
                      expiresAt |-> JsNull,
                      updatedAt |-> now \div MsPerSec]
                ELSE table[u]]]

\* INSERT ... ON CONFLICT(userId) DO UPDATE; licenseKey is UNIQUE, so a key
\* held by another userId's row makes the statement fail (threw)
upsertLicense(table, userId, licenseKey, customerId, subscriptionId, status, now) ==
    IF \E u \in DOMAIN table : u # userId /\ table[u].licenseKey = licenseKey
    THEN [threw |-> TRUE, table |-> table]
    ELSE [threw |-> FALSE,
          table |->
            [u \in DOMAIN table \cup {userId} |->
                IF u = userId
                THEN [licenseKey |-> licenseKey,
                      stripeCustomerId |-> customerId,
                      stripeSubscriptionId |-> subscriptionId,
                      status |-> status,
                      expiresAt |-> IF userId \in DOMAIN table
                                    THEN table[userId].expiresAt ELSE JsNull,
                      updatedAt |-> now \div MsPerSec]
                ELSE table[u]]]

(***************************************************************************)
(* backend/licenseService.js                                               *)
(***************************************************************************)
\* `fn_${Date.now()}_${Math.random().toString(36).substr(2, 9)}`
generateLicenseKey(now, rnd) == <<"fn", now, rnd>>

\* Map.prototype.set: a present key keeps its place, a new key is appended
MapSet(m, userId, val) ==
    LET e == m.entries IN
    [m EXCEPT !.entries =
        IF \E i \in 1..Len(e) : e[i].userId = userId
        THEN [i \in 1..Len(e) |-> IF e[i].userId = userId THEN val ELSE e[i]]
        ELSE Append(e, val)]

\* createLicense handing out the generated key without storing a record
createLicense_keyWithoutStore(userId, customerId, subscriptionId, m, now, rnd) ==
    [threw |-> FALSE, licenses |-> m, licenseKey |-> generateLicenseKey(now, rnd)]

\* createLicense(userId, customerId, subscriptionId, licenses): the key is
\* generated first; licenses.set on a left-out argument is a TypeError
createLicense(userId, customerId, subscriptionId, m, now, rnd) ==
    LET licenseKey == generateLicenseKey(now, rnd) IN
    IF ~m.defined
    THEN [threw |-> TRUE, licenses |-> m, licenseKey |-> NoKey]
    ELSE [threw |-> FALSE,
          licenses |-> MapSet(m, userId,
                          [userId |-> userId,
                           licenseKey |-> licenseKey,
                           stripeCustomerId |-> customerId,
                           stripeSubscriptionId |-> subscriptionId,
                           status |-> "active",
                           expiresAt |-> JsNull]),
          licenseKey |-> licenseKey]

\* for (const [userId, license] of licenses.entries()): first match in
\* insertion order; licenses.entries() on a left-out argument is a TypeError
findUserIdByCustomerId(customerId, m) ==
    LET e == m.entries IN
    IF ~m.defined
    THEN [threw |-> TRUE, userId |-> Null]
    ELSE IF \E i \in 1..Len(e) : e[i].stripeCustomerId = customerId
    THEN [threw |-> FALSE,
          userId |-> e[CHOOSE i \in 1..Len(e) :
                          /\ e[i].stripeCustomerId = customerId
                          /\ \A j \in 1..(i - 1) :
                                e[j].stripeCustomerId # customerId].userId]
    ELSE [threw |-> FALSE, userId |-> Null]

\* the expiry test written with <= : a license is invalid at its expiresAt
isValidLicense_expiredAtInstant(license, now) ==
    IF license = NullLicense \/ license.status # "active"
    THEN FALSE
    ELSE IF license.expiresAt # JsNull /\ license.expiresAt[1] <= now
    THEN FALSE
    ELSE TRUE

\* license.expiresAt is a Date (always truthy) or null
isValidLicense(license, now) ==
    IF license = NullLicense \/ license.status # "active"
    THEN FALSE
    ELSE IF license.expiresAt # JsNull /\ license.expiresAt[1] < now
    THEN FALSE
    ELSE TRUE

(***************************************************************************)
(* Stripe, as the server sees it                                           *)
(***************************************************************************)
SubStatuses == {"active", "trialing", "canceled", "past_due"}
ProviderStatuses == {"active", "canceled"}

SubCustomer(s) == IF s = "S1" THEN "C1" ELSE "C2"

\* subscription.metadata.userId; the checkout sessions this server creates
\* put the userId on the session only (S1), S2 carries it itself
SubMetaUser(s) == IF s = "S2" THEN "U2" ELSE Null

\* a customer field is the id string or, when expanded, the customer object
CustomerRef(id, expanded) ==
    IF expanded THEN [isString |-> FALSE, id |-> id]
    ELSE [isString |-> TRUE, value |-> id]

Subscription(s, expanded) ==
    [id |-> s, customer |-> CustomerRef(SubCustomer(s), expanded),
     status |-> subStatus[s], metaUserId |-> SubMetaUser(s)]

\* the checkout sessions Stripe holds, newest first (the order of a list call)
SessionList == <<"cs3", "cs1", "cs2", "cs4", "cs5">>
SessionIds == {SessionList[i] : i \in 1..Len(SessionList)}

Session(sid) ==
    CASE sid = "cs1" ->
            [id |-> sid, client_reference_id |-> "U1", metaUserId |-> "U1",
             payment_status |-> "paid", mode |-> "subscription",
             subscription |-> "S1"]
      [] sid = "cs2" ->
            [id |-> sid, client_reference_id |-> Null, metaUserId |-> "U2",
             payment_status |-> "paid", mode |-> "subscription",
             subscription |-> "S2"]
      [] sid = "cs3" ->
            [id |-> sid, client_reference_id |-> "U1", metaUserId |-> "U1",
             payment_status |-> "unpaid", mode |-> "subscription",
             subscription |-> Null]
      [] sid = "cs4" ->
            [id |-> sid, client_reference_id |-> Null, metaUserId |-> Null,
             payment_status |-> "paid", mode |-> "subscription",
             subscription |-> "S2"]
      [] OTHER ->
            [id |-> sid, client_reference_id |-> Null, metaUserId |-> "U2",
             payment_status |-> "paid", mode |-> "payment",
             subscription |-> Null]

\* typeof customer === 'string' ? customer : customer.id
extractCustomerId(customer) ==
    IF customer.isString THEN customer.value ELSE customer.id

\* the subscriptions whose status changes during a run (S2 stays active)
ChangingSubs == {"S1"}

\* Stripe's own state: a subscription changes status
ProviderSetStatus(sb, st) ==
    /\ subStatus[sb] # st
    /\ subStatus' = [subStatus EXCEPT ![sb] = st]
    /\ UNCHANGED <<db, clock, reqs, licenses, hist, verdict, limiter>>

(***************************************************************************)
(* Server: the handlers that make no Stripe call                           *)
(***************************************************************************)
Response(status, body, licenseKey) ==
    [status |-> status, body |-> body, licenseKey |-> licenseKey]

NoResponse == Response(0, "pending", NoKey)

\* GET /api/get-license?userId=
GetLicenseResponse(table, userId, now) ==
    LET license == getLicenseByUserId(table, userId) IN
    IF userId = Null
    THEN Response(400, "Missing userId", NoKey)
    ELSE IF license = NullLicense
    THEN Response(404, "No license found for this user", NoKey)
    ELSE IF ~isValidLicense(license, now)
    THEN Response(404, "License found but not active", NoKey)
    ELSE Response(200, "licenseKey", license.licenseKey)

\* a verification that looks the record up by the presented key, whoever
\* owns it
VerifyLicenseResponse_anyOwner(table, userId, licenseKey, now) ==
    LET license == getLicenseByLicenseKey(table, licenseKey) IN
    IF userId = Null \/ licenseKey = NoKey
    THEN Response(400, "Missing userId or licenseKey", NoKey)
    ELSE IF license = NullLicense \/ ~isValidLicense(license, now)
    THEN Response(200, "valid: false", NoKey)
    ELSE Response(200, "valid: true", NoKey)

\* GET /api/verify-license?userId=&licenseKey=
VerifyLicenseResponse(table, userId, licenseKey, now) ==
    LET license == getLicenseByUserId(table, userId) IN
    IF userId = Null \/ licenseKey = NoKey
    THEN Response(400, "Missing userId or licenseKey", NoKey)
    ELSE IF \/ license = NullLicense
            \/ license.licenseKey # licenseKey
            \/ ~isValidLicense(license, now)
    THEN Response(200, "valid: false", NoKey)
    ELSE Response(200, "valid: true", NoKey)

(***************************************************************************)
(* SpecLimit: the middleware of app.use('/api/', ...) and apiLimiter.       *)
(* A path is the sequence of its segments: /api/webhook is                  *)
(* <<"api", "webhook">>.                                                    *)
(***************************************************************************)
apiLimiter_max == 100     \* max: 100 requests per windowMs

MaxOver == 1              \* requests counted beyond max in one window

Ips == {"ip1", "ip2"}

WebhookPath == <<"api", "webhook">>

Paths == {WebhookPath, <<"api", "get-license">>, <<"health">>}

\* app.use('/api/', fn): fn runs for the paths under the mount point
MountPoint == <<"api">>

Mounted(path) ==
    /\ Len(path) >= Len(MountPoint)
    /\ SubSeq(path, 1, Len(MountPoint)) = MountPoint

\* req.path inside a middleware mounted with app.use(path, fn): Express
\* strips the mount point from req.url, and req.path is read from req.url
MountedReqPath(path) == SubSeq(path, Len(MountPoint) + 1, Len(path))

NoDecision == [ip |-> Null, path |-> <<>>, counted |-> FALSE, hits |-> 0, status |-> 0]

NoLimiter == [hits |-> [ip \in Ips |-> 0], last |-> NoDecision]

\* the decision of the middleware at lines 81-86 for one request: status 0
\* is next(), 429 is the answer of express-rate-limit once hits > max
apiRateLimit(lim, ip, path) ==
    LET hits == lim.hits[ip] + 1 IN
    IF ~Mounted(path)
    THEN [lim EXCEPT !.last = [ip |-> ip, path |-> path, counted |-> FALSE,
                               hits |-> lim.hits[ip], status |-> 0]]
    ELSE IF MountedReqPath(path) = WebhookPath   \* req.path === '/api/webhook'
    THEN [lim EXCEPT !.last = [ip |-> ip, path |-> path, counted |-> FALSE,
                               hits |-> lim.hits[ip], status |-> 0]]
    ELSE [hits |-> [lim.hits EXCEPT ![ip] = hits],
          last |-> [ip |-> ip, path |-> path, counted |-> TRUE, hits |-> hits,
                    status |-> IF hits > apiLimiter_max THEN 429 ELSE 0]]

LimitInit ==
    /\ limiter = NoLimiter
    /\ db = EmptyTable
    /\ clock = 0
    /\ subStatus = [s \in Subs |-> "active"]
    /\ reqs = <<>>
    /\ licenses = UndefinedMap
    /\ hist = <<>>
    /\ verdict = [op |-> "none"]

\* a request from ip for path reaches the middleware
LimitRequest(ip, path) ==
    /\ limiter.hits[ip] < apiLimiter_max + MaxOver
    /\ limiter' = apiRateLimit(limiter, ip, path)
    /\ UNCHANGED <<db, clock, subStatus, reqs, licenses, hist, verdict>>

\* windowMs has passed since the first hit of ip: its count starts again
WindowElapsed(ip) ==
    /\ limiter.hits[ip] > 0
    /\ limiter' = [limiter EXCEPT !.hits[ip] = 0]
    /\ UNCHANGED <<db, clock, subStatus, reqs, licenses, hist, verdict>>

LimitNext ==
    \/ \E ip \in Ips, path \in Paths : LimitRequest(ip, path)
    \/ \E ip \in Ips : WindowElapsed(ip)

SpecLimit == LimitInit /\ [][LimitNext]_vars

(***************************************************************************)
(* SpecValid: the license checks on arbitrary stored rows                  *)
(***************************************************************************)
ExpiryValues == {JsNull} \cup {<<e>> : e \in (0 - 1)..MaxExpiry}

StoredKey(u) == generateLicenseKey(0, IF u = "U1" THEN 1 ELSE 2)

ArbitraryRow(u, c, st, e) ==
    [licenseKey |-> StoredKey(u),
     stripeCustomerId |-> c,
     stripeSubscriptionId |-> IF c = "C1" THEN "S1" ELSE "S2",
     status |-> st,
     expiresAt |-> e,
     updatedAt |-> 0]

NoVerdict ==
    [op |-> "none", userId |-> Null, licenseKey |-> NoKey,
     license |-> NullLicense, now |-> 0, valid |-> FALSE,
     response |-> NoResponse]

IdleReqs == <<>>

ValidInit ==
    /\ \E D \in SUBSET Users :
          \E st \in [D -> LicenseStatuses], e \in [D -> ExpiryValues] :
             db = [u \in D |-> ArbitraryRow(u, IF u = "U1" THEN "C1" ELSE "C2",
                                            st[u], e[u])]
    /\ clock = MsPerSec - 1
    /\ verdict = NoVerdict
    /\ subStatus = [s \in Subs |-> "active"]
    /\ reqs = IdleReqs
    /\ licenses = NewMap
    /\ hist = <<>>
    /\ limiter = NoLimiter

\* isValidLicense(db.getLicenseByUserId(userId))
ValidEval(u) ==
    /\ verdict' = [op |-> "isValidLicense", userId |-> u, licenseKey |-> NoKey,
                   license |-> getLicenseByUserId(db, u), now |-> clock,
                   valid |-> isValidLicense(getLicenseByUserId(db, u), clock),
                   response |-> NoResponse]
    /\ UNCHANGED <<db, clock, subStatus, reqs, licenses, hist, limiter>>

ValidGetLicense(u) ==
    /\ verdict' = [op |-> "get-license", userId |-> u, licenseKey |-> NoKey,
                   license |-> getLicenseByUserId(db, u), now |-> clock,
                   valid |-> isValidLicense(getLicenseByUserId(db, u), clock),
                   response |-> GetLicenseResponse(db, u, clock)]
    /\ UNCHANGED <<db, clock, subStatus, reqs, licenses, hist, limiter>>

ValidVerifyLicense(u, k) ==
    /\ verdict' = [op |-> "verify-license", userId |-> u, licenseKey |-> k,
                   license |-> getLicenseByUserId(db, u), now |-> clock,
                   valid |-> isValidLicense(getLicenseByUserId(db, u), clock),
                   response |-> VerifyLicenseResponse(db, u, k, clock)]
    /\ UNCHANGED <<db, clock, subStatus, reqs, licenses, hist, limiter>>

ValidNext ==
    \/ Tick
    \/ \E u \in Users : ValidEval(u)
    \/ \E u \in Users : ValidGetLicense(u)
    \/ \E u \in Users, k \in {NoKey} \cup {StoredKey(x) : x \in Users} :
          ValidVerifyLicense(u, k)

SpecValid == ValidInit /\ [][ValidNext]_vars

(***************************************************************************)
(* SpecSvc: licenseService.js on the Map it is handed                      *)
(* while the subscriptions change status at Stripe                         *)
(***************************************************************************)
SvcInit ==
    /\ licenses = NewMap
    /\ hist = <<>>
    /\ clock = MsPerSec - 1
    /\ db = EmptyTable
    /\ verdict = NoVerdict
    /\ subStatus = [s \in Subs |-> "active"]
    /\ reqs = IdleReqs
    /\ limiter = NoLimiter

\* createLicense(userId, customerId, subscriptionId, licenses); withMap = FALSE
\* is a call that leaves the licenses argument out
SvcCreateLicense(u, c, s, rnd, withMap) ==
    LET res == createLicense(u, c, s,
                   IF withMap THEN licenses ELSE UndefinedMap, clock, rnd) IN
    /\ Len(hist) < MaxHist
    /\ licenses' = IF res.threw THEN licenses ELSE res.licenses
    /\ hist' = Append(hist, [op |-> "createLicense", userId |-> u,
                             customerId |-> c, threw |-> res.threw,
                             licenseKey |-> res.licenseKey,
                             subscriptionId |-> s,
                             providerStatus |-> subStatus[s]])
    /\ UNCHANGED <<db, clock, subStatus, reqs, verdict, limiter>>

SvcFindUserIdByCustomerId(c, withMap) ==
    LET res == findUserIdByCustomerId(c,
                   IF withMap THEN licenses ELSE UndefinedMap) IN
    /\ Len(hist) < MaxHist
    /\ hist' = Append(hist, [op |-> "findUserIdByCustomerId",
                             userId |-> res.userId, customerId |-> c,
                             threw |-> res.threw, licenseKey |-> NoKey,
                             subscriptionId |-> Null, providerStatus |-> Null])
    /\ UNCHANGED <<db, clock, subStatus, reqs, licenses, verdict, limiter>>

SvcNext ==
    \/ Tick
    \/ \E u \in Users, c \in Customers, s \in Subs, rnd \in 1..MaxRand,
          withMap \in BOOLEAN : SvcCreateLicense(u, c, s, rnd, withMap)
    \/ \E c \in Customers, withMap \in BOOLEAN : SvcFindUserIdByCustomerId(c, withMap)
    \/ \E sb \in ChangingSubs, st \in ProviderStatuses : ProviderSetStatus(sb, st)

SpecSvc == SvcInit /\ [][SvcNext]_vars

(***************************************************************************)
(* Claims about licenseService.js and the license checks                   *)
(***************************************************************************)
SvcRecordsOf(u) ==
    {i \in 1..Len(licenses.entries) : licenses.entries[i].userId = u}

\* two createLicense calls on the Map, one right after the other, same userId
SvcCreatedTwice(i) ==
    /\ i \in 1..(Len(hist) - 1)
    /\ hist[i].op = "createLicense" /\ ~hist[i].threw
    /\ hist[i + 1].op = "createLicense" /\ ~hist[i + 1].threw
    /\ hist[i].userId = hist[i + 1].userId

\* C1: calling createLicense twice in sequence with the same userId returns
\* the same licenseKey both times and leaves exactly one record for the userId
C1_SameKeyTwice ==
    \A i \in 1..Len(hist) :
        SvcCreatedTwice(i) =>
            /\ hist[i].licenseKey = hist[i + 1].licenseKey
            /\ Cardinality(SvcRecordsOf(hist[i].userId)) = 1

\* the stored row of the evaluated user is active and its expiresAt is an
\* instant before the time of the evaluation
VerdictOnExpiredActive ==
    /\ verdict.op # "none"
    /\ verdict.userId \in DOMAIN db
    /\ db[verdict.userId].status = "active"
    /\ db[verdict.userId].expiresAt # JsNull
    /\ db[verdict.userId].expiresAt[1] * MsPerSec < verdict.now

\* C8: an active license whose expiresAt is any instant earlier than the
\* current time is not entitled: isValidLicense is false, get-license does
\* not hand out the key, verify-license does not report valid
C8_ExpiredNotEntitled ==
    VerdictOnExpiredActive =>
        /\ ~verdict.valid
        /\ verdict.response.status # 200 \/ verdict.response.body = "valid: false"

\* C9 as stated: isValidLicense(license) is true exactly when license is
\* non-null, active, and expiresAt is null or strictly later than now
C9_EntitledIffStrictlyLater ==
    verdict.op = "isValidLicense" =>
        verdict.valid =
            (/\ verdict.license # NullLicense
             /\ verdict.license.status = "active"
             /\ \/ verdict.license.expiresAt = JsNull
                \/ verdict.license.expiresAt[1] > verdict.now)

\* C9 amended: isValidLicense(license) is true exactly when license is
\* non-null, active, and expiresAt is null or not earlier than now
C9_EntitledIffNotEarlier ==
    verdict.op = "isValidLicense" =>
        verdict.valid =
            (/\ verdict.license # NullLicense
             /\ verdict.license.status = "active"
             /\ \/ verdict.license.expiresAt = JsNull
                \/ verdict.license.expiresAt[1] >= verdict.now)

\* an active license evaluated at the very instant it expires is valid
C9_Witness ==
    /\ verdict.op = "isValidLicense"
    /\ verdict.license # NullLicense
    /\ verdict.license.status = "active"
    /\ verdict.license.expiresAt = <<verdict.now>>
    /\ verdict.valid

(***************************************************************************)
(* Spec: the server.  A request runs from its arrival to its first await   *)
(* on Stripe in one step, and from the answer of one await to the next     *)
(* await or to its response in one step.  The stored rows carry no         *)
(* expiresAt and no handler writes a key it generates, so no outcome       *)
(* depends on the time of day: the clock stands still in Spec.             *)
(***************************************************************************)
MaxReq == 2      \* requests received in a run

NoEvent == [type |-> Null, session |-> Null, sub |-> Null, status |-> Null]

CheckoutEvents ==
    {[type |-> "checkout.session.completed", session |-> sid, sub |-> Null,
      status |-> Null] : sid \in SessionIds}

SubscriptionEvents ==
    {[type |-> "customer.subscription.updated", session |-> Null, sub |-> sb,
      status |-> st] : sb \in Subs, st \in SubStatuses}
    \cup
    {[type |-> "customer.subscription.deleted", session |-> Null, sub |-> sb,
      status |-> "canceled"] : sb \in Subs}

OtherEvents ==
    {[type |-> "invoice.paid", session |-> Null, sub |-> Null, status |-> Null],
     [type |-> "customer.subscription.created", session |-> Null, sub |-> "S1",
      status |-> "active"]}

Events == CheckoutEvents \cup SubscriptionEvents \cup OtherEvents

\* a request as received: nothing called, nothing dispatched, no response
NewRequest(kind, userId, licenseKey, sessionId, event, sig) ==
    [kind |-> kind, pc |-> "start", userId |-> userId,
     licenseKey |-> licenseKey, sessionId |-> sessionId, event |-> event,
     sig |-> sig, subscriptionId |-> Null, customerId |-> Null,
     existing |-> Null, calls |-> <<>>, failed |-> FALSE, handler |-> "none",
     concurrent |-> 0, resp |-> NoResponse]

\* what a lookup in the store gave: "none", or the status of the license
Found(license) == IF license = NullLicense THEN "none" ELSE license.status

\* res.status(...).json(...): the request is over
Respond(q, resp) == [q EXCEPT !.pc = "done", !.resp = resp]

\* the request calls Stripe and waits for the answer
Await(q, call, pc) == [q EXCEPT !.pc = pc, !.calls = Append(q.calls, call)]

\* the awaited Stripe call threw
Threw(q) == [q EXCEPT !.failed = TRUE]

\* the requests still waiting for Stripe
InFlight == {r \in 1..Len(reqs) : reqs[r].pc # "done"}

\* a request arrives; concurrent counts the requests in flight at that time
Receive(q) ==
    /\ Len(reqs) < MaxReq
    /\ reqs' = Append(reqs, [q EXCEPT !.concurrent = Cardinality(InFlight)])

Resume(r, q) == reqs' = [reqs EXCEPT ![r] = q]

Waiting(r, pc) == r \in 1..Len(reqs) /\ reqs[r].pc = pc

\* GET /api/get-license
GetLicense(u) ==
    /\ Receive(Respond(NewRequest("get-license", u, NoKey, Null, NoEvent, FALSE),
                       GetLicenseResponse(db, u, clock)))
    /\ UNCHANGED <<db, clock, subStatus, licenses, hist, verdict, limiter>>

\* a verification that stamps the row it has read
VerifyLicense_stampsRow(u, k) ==
    /\ Receive(Respond(NewRequest("verify-license", u, k, Null, NoEvent, FALSE),
                       VerifyLicenseResponse(db, u, k, clock)))
    /\ db' = IF u \in DOMAIN db THEN [db EXCEPT ![u].updatedAt = clock] ELSE db
    /\ UNCHANGED <<clock, subStatus, licenses, hist, verdict, limiter>>

\* GET /api/verify-license
VerifyLicense(u, k) ==
    /\ Receive(Respond(NewRequest("verify-license", u, k, Null, NoEvent, FALSE),
                       VerifyLicenseResponse(db, u, k, clock)))
    /\ UNCHANGED <<db, clock, subStatus, licenses, hist, verdict, limiter>>

(***************************************************************************)
(* backend/webhookHandlers.js and POST /api/webhook                        *)
(***************************************************************************)
\* constructEvent taking the payload for an event whatever the signature
constructEvent_acceptsAny(event, sig) == [threw |-> FALSE, event |-> event]

\* stripe.webhooks.constructEvent: throws unless the signature verifies
constructEvent(event, sig) ==
    IF sig THEN [threw |-> FALSE, event |-> event]
    ELSE [threw |-> TRUE, event |-> NoEvent]

\* session.client_reference_id || session.metadata?.userId
CheckoutUserId(session) ==
    IF session.client_reference_id # Null THEN session.client_reference_id
    ELSE session.metaUserId

\* handleCheckoutCompleted without the test of session.mode
handleCheckoutCompleted_start_anyMode(q, session) ==
    LET userId == CheckoutUserId(session)
        h == [q EXCEPT !.handler = "handleCheckoutCompleted"] IN
    IF userId = Null
    THEN Respond(h, Response(200, "received", NoKey))
    ELSE Await([h EXCEPT !.userId = userId,
                         !.subscriptionId = session.subscription],
               "subscriptions.retrieve", "checkout:retrieve")

\* handleCheckoutCompleted up to its await: inert without a userId or
\* outside subscription mode, else it retrieves the subscription
handleCheckoutCompleted_start(q, session) ==
    LET userId == CheckoutUserId(session)
        h == [q EXCEPT !.handler = "handleCheckoutCompleted"] IN
    IF userId = Null \/ session.mode # "subscription"
    THEN Respond(h, Response(200, "received", NoKey))
    ELSE Await([h EXCEPT !.userId = userId,
                         !.subscriptionId = session.subscription],
               "subscriptions.retrieve", "checkout:retrieve")

\* handleCheckoutCompleted without the test for an active record
handleCheckoutCompleted_retrieved_unguarded(q, table, ok, now, rnd) ==
    LET existing == getLicenseByUserId(table, q.userId)
        h == [q EXCEPT !.customerId = SubCustomer(q.subscriptionId),
                       !.existing = Found(existing)] IN
    IF ~ok
    THEN Respond(Threw(q), Response(500, "Webhook handler failed", NoKey))
    ELSE Respond(h, Response(500, "Webhook handler failed", NoKey))

\* handleCheckoutCompleted logging the error of the retrieval instead of
\* rethrowing it: the webhook acknowledges the event
handleCheckoutCompleted_retrieved_swallows(q, table, ok, now, rnd) ==
    LET existing == getLicenseByUserId(table, q.userId)
        h == [q EXCEPT !.customerId = SubCustomer(q.subscriptionId),
                       !.existing = Found(existing)] IN
    IF ~ok
    THEN Respond(Threw(q), Response(200, "received", NoKey))
    ELSE IF existing # NullLicense /\ existing.status = "active"
    THEN Respond(h, Response(200, "received", NoKey))
    ELSE Respond(h, Response(500, "Webhook handler failed", NoKey))

\* handleCheckoutCompleted after stripe.subscriptions.retrieve: an error is
\* rethrown; an active record ends the handler; else createLicense is called
\* with three arguments
handleCheckoutCompleted_retrieved(q, table, ok, now, rnd) ==
    LET subscription == Subscription(q.subscriptionId, FALSE)
        customerId == extractCustomerId(subscription.customer)
        existing == getLicenseByUserId(table, q.userId)
        created == createLicense(q.userId, customerId, subscription.id,
                                 UndefinedMap, now, rnd) IN
    IF ~ok
    THEN Respond(Threw(q), Response(500, "Webhook handler failed", NoKey))
    ELSE LET h == [q EXCEPT !.customerId = customerId,
                            !.existing = Found(existing)] IN
         IF existing # NullLicense /\ existing.status = "active"
         THEN Respond(h, Response(200, "received", NoKey))
         ELSE IF created.threw
         THEN Respond(h, Response(500, "Webhook handler failed", NoKey))
         ELSE Respond(h, Response(200, "received", NoKey))

\* the subscription status of Stripe stored as it is reported
licenseStatusOf_asReported(status) == status

\* isActive ? 'active' : 'canceled', isActive being status active or trialing
licenseStatusOf(status) ==
    IF status = "active" \/ status = "trialing" THEN "active" ELSE "canceled"

\* handleSubscriptionUpdate(subscription): findUserIdByCustomerId is called
\* with one argument; the result is the table afterwards, or threw
handleSubscriptionUpdate(table, event, now) ==
    LET customerId == extractCustomerId(CustomerRef(SubCustomer(event.sub), FALSE))
        found == findUserIdByCustomerId(customerId, UndefinedMap)
        license == getLicenseByUserId(table, found.userId) IN
    IF found.threw
    THEN [threw |-> TRUE, table |-> table]
    ELSE IF found.userId = Null
    THEN [threw |-> FALSE, table |-> table]
    ELSE IF license = NullLicense
    THEN [threw |-> FALSE, table |-> table]
    ELSE [threw |-> FALSE,
          table |-> updateLicenseStatus(table, found.userId,
                        licenseStatusOf(event.status), now)]

\* a dispatch that hands every event that is not a checkout to
\* handleSubscriptionUpdate
Webhook_anySubscriptionEvent(event, sig) ==
    LET q == NewRequest("webhook", Null, NoKey, Null, event, sig)
        verified == constructEvent(event, sig)
        updated == handleSubscriptionUpdate(db, verified.event, clock) IN
    /\ \/ /\ verified.threw
          /\ Receive(Respond(q, Response(400, "Webhook Error", NoKey)))
          /\ db' = db
       \/ /\ ~verified.threw
          /\ verified.event.type = "checkout.session.completed"
          /\ Receive(handleCheckoutCompleted_start(q, Session(verified.event.session)))
          /\ db' = db
       \/ /\ ~verified.threw
          /\ verified.event.type # "checkout.session.completed"
          /\ Receive(Respond([q EXCEPT !.handler = "handleSubscriptionUpdate"],
                             IF updated.threw
                             THEN Response(500, "Webhook handler failed", NoKey)
                             ELSE Response(200, "received", NoKey)))
          /\ db' = updated.table
    /\ UNCHANGED <<clock, subStatus, licenses, hist, verdict, limiter>>

\* POST /api/webhook: a request whose signature does not verify is answered
\* 400 before anything is dispatched
Webhook(event, sig) ==
    LET q == NewRequest("webhook", Null, NoKey, Null, event, sig)
        verified == constructEvent(event, sig)
        updated == handleSubscriptionUpdate(db, verified.event, clock) IN
    /\ \/ /\ verified.threw
          /\ Receive(Respond(q, Response(400, "Webhook Error", NoKey)))
          /\ db' = db
       \/ /\ ~verified.threw
          /\ verified.event.type = "checkout.session.completed"
          /\ Receive(handleCheckoutCompleted_start(q, Session(verified.event.session)))
          /\ db' = db
       \/ /\ ~verified.threw
          /\ verified.event.type \in {"customer.subscription.updated",
                                      "customer.subscription.deleted"}
          /\ Receive(Respond([q EXCEPT !.handler = "handleSubscriptionUpdate"],
                             IF updated.threw
                             THEN Response(500, "Webhook handler failed", NoKey)
                             ELSE Response(200, "received", NoKey)))
          /\ db' = updated.table
       \/ /\ ~verified.threw
          /\ verified.event.type \notin {"checkout.session.completed",
                                         "customer.subscription.updated",
                                         "customer.subscription.deleted"}
          /\ Receive(Respond(q, Response(200, "received", NoKey)))
          /\ db' = db
    /\ UNCHANGED <<clock, subStatus, licenses, hist, verdict, limiter>>

\* Stripe answers a retrieve: an error, or the object; an id of null is
\* always an error
RetrieveOutcomes(id) == IF id = Null THEN {FALSE} ELSE BOOLEAN

\* the awaited stripe.subscriptions.retrieve of handleCheckoutCompleted
WebhookRetrieved(r) ==
    /\ Waiting(r, "checkout:retrieve")
    /\ \E ok \in RetrieveOutcomes(reqs[r].subscriptionId), rnd \in 1..MaxRand :
          Resume(r, handleCheckoutCompleted_retrieved(reqs[r], db, ok, clock, rnd))
    /\ UNCHANGED <<db, clock, subStatus, licenses, hist, verdict, limiter>>

(***************************************************************************)
(* POST /api/create-portal-session: the license resolver                   *)
(***************************************************************************)
\* a resolver that reports the absence as a failure
PortalNotFound_asError(q) == Respond(q, Response(500, "Failed to create portal session", NoKey))

\* lines 321-326: no license after every lookup
PortalNotFound(q) == Respond(q, Response(404, "No active subscription found", NoKey))

\* a license is at hand: stripe.billingPortal.sessions.create for its customer
PortalOpen(q, license) ==
    IF license.stripeCustomerId = Null
    THEN Respond(q, Response(404, "Subscription not linked", NoKey))
    ELSE Await([q EXCEPT !.customerId = license.stripeCustomerId],
               "billingPortal.sessions.create", "portal:create")

\* the limit parameter of the list calls of the resolver (0: not a list call)
PageLimit(call) ==
    CASE call = "checkout.sessions.list(client_reference_id)" -> 100
      [] call = "checkout.sessions.list" -> 100
      [] call = "subscriptions.list" -> 100
      [] call = "subscriptions.list(customer)" -> 1
      [] OTHER -> 0

\* the fallback: stripe.subscriptions.list({status: 'active'})
PortalScanSubscriptions(q) == Await(q, "subscriptions.list", "portal:listSubs")

\* a resolver that looks the license up by userId only
Portal_start_ignoresKey(q, table) ==
    LET license == getLicenseByUserId(table, q.userId) IN
    IF q.userId = Null
    THEN Respond(q, Response(400, "Missing userId", NoKey))
    ELSE IF license # NullLicense
    THEN PortalOpen([q EXCEPT !.existing = Found(license)], license)
    ELSE Await([q EXCEPT !.existing = Found(license)],
               "checkout.sessions.list(client_reference_id)", "portal:listByRef")

\* lines 222-243: direct lookup, lookup by the supplied key, else the first
\* Stripe lookup
Portal_start(q, table) ==
    LET byUser == getLicenseByUserId(table, q.userId)
        license == IF byUser = NullLicense /\ q.licenseKey # NoKey
                   THEN getLicenseByLicenseKey(table, q.licenseKey)
                   ELSE byUser IN
    IF q.userId = Null
    THEN Respond(q, Response(400, "Missing userId", NoKey))
    ELSE IF license # NullLicense
    THEN PortalOpen([q EXCEPT !.existing = Found(license)], license)
    ELSE Await([q EXCEPT !.existing = Found(license)],
               "checkout.sessions.list(client_reference_id)", "portal:listByRef")

\* a resolver that takes the first listed session, paid or not
Portal_listedByRef_firstListed(q, ok) ==
    LET data == SelectSeq(SessionList,
                  LAMBDA sid : Session(sid).client_reference_id = q.userId)
        latestSession == Session(data[1]) IN
    IF ~ok
    THEN PortalScanSubscriptions(Threw(q))
    ELSE IF Len(data) > 0
    THEN IF latestSession.subscription # Null
         THEN Await([q EXCEPT !.subscriptionId = latestSession.subscription],
                    "subscriptions.retrieve", "portal:retrieve")
         ELSE PortalScanSubscriptions(q)
    ELSE Await(q, "checkout.sessions.list", "portal:listAll")

\* lines 245-266 after the list by client_reference_id: a paid session is
\* preferred; an empty list leads to the list of all sessions; a thrown
\* error is swallowed and the subscription scan follows
Portal_listedByRef(q, ok) ==
    LET data == SelectSeq(SessionList,
                  LAMBDA sid : Session(sid).client_reference_id = q.userId)
        completedSessions == SelectSeq(data,
                               LAMBDA sid : Session(sid).payment_status = "paid")
        latestSession == Session(IF Len(completedSessions) > 0
                                 THEN completedSessions[1] ELSE data[1]) IN
    IF ~ok
    THEN PortalScanSubscriptions(Threw(q))
    ELSE IF Len(data) > 0
    THEN IF latestSession.subscription # Null
         THEN Await([q EXCEPT !.subscriptionId = latestSession.subscription],
                    "subscriptions.retrieve", "portal:retrieve")
         ELSE PortalScanSubscriptions(q)
    ELSE Await(q, "checkout.sessions.list", "portal:listAll")

\* lines 255-265 after the list of all sessions
Portal_listedAll(q, ok) ==
    LET matching == SelectSeq(SessionList,
                      LAMBDA sid : \/ Session(sid).client_reference_id = q.userId
                                   \/ Session(sid).metaUserId = q.userId) IN
    IF ~ok
    THEN PortalScanSubscriptions(Threw(q))
    ELSE IF Len(matching) > 0 /\ Session(matching[1]).subscription # Null
    THEN Await([q EXCEPT !.subscriptionId = Session(matching[1]).subscription],
               "subscriptions.retrieve", "portal:retrieve")
    ELSE PortalScanSubscriptions(q)

\* lines 292-316 with a customerId found: findUserIdByCustomerId is called
\* with one argument and createLicense with three; what they throw is caught
\* at line 317 and the license stays null.  (subscriptionId is never null
\* here: every path that sets customerId has set it before.)
Portal_resolve(q, table, customerId, now, rnd) ==
    LET found == findUserIdByCustomerId(customerId, UndefinedMap)
        created == createLicense(q.userId, customerId, q.subscriptionId,
                                 UndefinedMap, now, rnd)
        license == IF found.threw THEN NullLicense
                   ELSE IF found.userId # Null
                   THEN getLicenseByUserId(table, found.userId)
                   ELSE IF created.threw THEN NullLicense
                   ELSE getLicenseByUserId(table, q.userId)
        q2 == [q EXCEPT !.customerId = customerId] IN
    IF license = NullLicense THEN PortalNotFound(q2) ELSE PortalOpen(q2, license)

\* a resolver that goes on to the subscription scan whatever the retrieval
\* of the subscription gave
Portal_retrieved_alwaysScans(q, table, ok, now, rnd) == PortalScanSubscriptions(IF ok THEN q ELSE Threw(q))

\* lines 251-253 / 263-265 after stripe.subscriptions.retrieve; an error is
\* swallowed with subscriptionId already set
Portal_retrieved(q, table, ok, now, rnd) ==
    IF ~ok
    THEN PortalScanSubscriptions(Threw(q))
    ELSE Portal_resolve(q, table,
             extractCustomerId(Subscription(q.subscriptionId, FALSE).customer),
             now, rnd)

\* the active subscriptions whose metadata names the user
\* (sub.client_reference_id does not exist on a subscription)
MatchingSubs(userId) ==
    {sb \in Subs : subStatus[sb] = "active" /\ SubMetaUser(sb) = userId}

\* lines 273-290 after stripe.subscriptions.list; an error is caught at
\* line 317
Portal_listedSubs(q, table, ok, matchingSub, now, rnd) ==
    IF ~ok
    THEN PortalNotFound(Threw(q))
    ELSE IF matchingSub # Null
    THEN Portal_resolve([q EXCEPT !.subscriptionId = matchingSub], table,
             extractCustomerId(Subscription(matchingSub, TRUE).customer),
             now, rnd)
    ELSE PortalNotFound(q)

\* a resolver that asks Stripe again when the creation of the portal session
\* failed
Portal_created_retries(q, ok) ==
    IF ok THEN Respond(q, Response(200, "url", NoKey))
    ELSE Await(Threw(q), "billingPortal.sessions.create", "portal:create")

\* lines 336-347 after stripe.billingPortal.sessions.create
Portal_created(q, ok) ==
    IF ok THEN Respond(q, Response(200, "url", NoKey))
    ELSE Respond(Threw(q), Response(500, "Failed to create portal session", NoKey))

PortalSession(u, k) ==
    /\ Receive(Portal_start(NewRequest("portal", u, k, Null, NoEvent, FALSE), db))
    /\ UNCHANGED <<db, clock, subStatus, licenses, hist, verdict, limiter>>

PortalListedByRef(r) ==
    /\ Waiting(r, "portal:listByRef")
    /\ \E ok \in BOOLEAN : Resume(r, Portal_listedByRef(reqs[r], ok))
    /\ UNCHANGED <<db, clock, subStatus, licenses, hist, verdict, limiter>>

PortalListedAll(r) ==
    /\ Waiting(r, "portal:listAll")
    /\ \E ok \in BOOLEAN : Resume(r, Portal_listedAll(reqs[r], ok))
    /\ UNCHANGED <<db, clock, subStatus, licenses, hist, verdict, limiter>>

PortalRetrieved(r) ==
    /\ Waiting(r, "portal:retrieve")
    /\ \E ok \in BOOLEAN, rnd \in 1..MaxRand :
          Resume(r, Portal_retrieved(reqs[r], db, ok, clock, rnd))
    /\ UNCHANGED <<db, clock, subStatus, licenses, hist, verdict, limiter>>

PortalListedSubs(r) ==
    /\ Waiting(r, "portal:listSubs")
    /\ \E ok \in BOOLEAN, rnd \in 1..MaxRand,
          matchingSub \in IF MatchingSubs(reqs[r].userId) = {} THEN {Null}
                          ELSE MatchingSubs(reqs[r].userId) :
          Resume(r, Portal_listedSubs(reqs[r], db, ok, matchingSub, clock, rnd))
    /\ UNCHANGED <<db, clock, subStatus, licenses, hist, verdict, limiter>>

PortalCreated(r) ==
    /\ Waiting(r, "portal:create")
    /\ \E ok \in BOOLEAN : Resume(r, Portal_created(reqs[r], ok))
    /\ UNCHANGED <<db, clock, subStatus, licenses, hist, verdict, limiter>>

(***************************************************************************)
(* POST /api/auto-create-license                                           *)
(***************************************************************************)
\* an auto-create that goes to Stripe whatever the store holds
AutoCreate_start_alwaysRetrieves(q, table, now) ==
    LET existing == getLicenseByUserId(table, q.userId) IN
    IF q.sessionId = Null \/ q.userId = Null
    THEN Respond(q, Response(400, "Missing sessionId or userId", NoKey))
    ELSE Await([q EXCEPT !.existing = Found(existing)],
               "checkout.sessions.retrieve", "auto:session")

AutoCreate_start(q, table, now) ==
    LET existing == getLicenseByUserId(table, q.userId) IN
    IF q.sessionId = Null \/ q.userId = Null
    THEN Respond(q, Response(400, "Missing sessionId or userId", NoKey))
    ELSE IF existing # NullLicense /\ isValidLicense(existing, now)
    THEN Respond([q EXCEPT !.existing = Found(existing)],
                 Response(200, "License already exists", existing.licenseKey))
    ELSE Await([q EXCEPT !.existing = Found(existing)],
               "checkout.sessions.retrieve", "auto:session")

\* lines 414-425 after stripe.checkout.sessions.retrieve
AutoCreate_session(q, ok) ==
    LET session == Session(q.sessionId) IN
    IF ~ok
    THEN Respond(Threw(q), Response(500, "error.message", NoKey))
    ELSE IF session.payment_status # "paid"
    THEN Respond(q, Response(400, "Payment not completed", NoKey))
    ELSE IF session.mode # "subscription"
    THEN Respond(q, Response(400, "Not a subscription session", NoKey))
    ELSE Await([q EXCEPT !.subscriptionId = session.subscription],
               "subscriptions.retrieve", "auto:sub")

\* auto-create-license going to createLicense whatever the subscription status
AutoCreate_subscription_anyStatus(q, ok, now, rnd) ==
    LET subscription == Subscription(q.subscriptionId, FALSE)
        customerId == extractCustomerId(subscription.customer)
        created == createLicense(q.userId, customerId, subscription.id,
                                 UndefinedMap, now, rnd) IN
    IF ~ok
    THEN Respond(Threw(q), Response(500, "error.message", NoKey))
    ELSE IF created.threw
    THEN Respond([q EXCEPT !.customerId = customerId],
                 Response(500, "error.message", NoKey))
    ELSE Respond([q EXCEPT !.customerId = customerId],
                 Response(200, "License created successfully", created.licenseKey))

\* lines 425-443 after stripe.subscriptions.retrieve: createLicense is called
\* with three arguments
AutoCreate_subscription(q, ok, now, rnd) ==
    LET subscription == Subscription(q.subscriptionId, FALSE)
        customerId == extractCustomerId(subscription.customer)
        created == createLicense(q.userId, customerId, subscription.id,
                                 UndefinedMap, now, rnd) IN
    IF ~ok
    THEN Respond(Threw(q), Response(500, "error.message", NoKey))
    ELSE IF subscription.status # "active" /\ subscription.status # "trialing"
    THEN Respond(q, Response(400, "Subscription status is not active", NoKey))
    ELSE IF created.threw
    THEN Respond([q EXCEPT !.customerId = customerId],
                 Response(500, "error.message", NoKey))
    ELSE Respond([q EXCEPT !.customerId = customerId],
                 Response(200, "License created successfully", created.licenseKey))

AutoCreateLicense(sid, u) ==
    /\ Receive(AutoCreate_start(NewRequest("auto-create", u, NoKey, sid, NoEvent,
                                           FALSE), db, clock))
    /\ UNCHANGED <<db, clock, subStatus, licenses, hist, verdict, limiter>>

AutoCreateSession(r) ==
    /\ Waiting(r, "auto:session")
    /\ \E ok \in BOOLEAN : Resume(r, AutoCreate_session(reqs[r], ok))
    /\ UNCHANGED <<db, clock, subStatus, licenses, hist, verdict, limiter>>

AutoCreateSubscription(r) ==
    /\ Waiting(r, "auto:sub")
    /\ \E ok \in RetrieveOutcomes(reqs[r].subscriptionId), rnd \in 1..MaxRand :
          Resume(r, AutoCreate_subscription(reqs[r], ok, clock, rnd))
    /\ UNCHANGED <<db, clock, subStatus, licenses, hist, verdict, limiter>>

(***************************************************************************)
(* SpecDb: database.js under the writes it offers.  upsertLicense is given  *)
(* a generated key and the customer and subscription of one Stripe          *)
(* subscription; updateLicenseStatus is given the license status             *)
(* handleSubscriptionUpdate computes from a subscription status.             *)
(***************************************************************************)
\* licenses.db as the process finds it: without rows, or with the record of
\* U1, active or canceled
DbInit ==
    /\ \/ db = EmptyTable
       \/ \E st \in LicenseStatuses :
             db = [u \in {"U1"} |-> ArbitraryRow(u, "C1", st, JsNull)]
    /\ hist = <<>>
    /\ clock = MsPerSec - 1
    /\ licenses = NewMap
    /\ verdict = NoVerdict
    /\ subStatus = [s \in Subs |-> "active"]
    /\ reqs = IdleReqs
    /\ limiter = NoLimiter

\* db.upsertLicense(userId, licenseKey, customerId, subscriptionId, status)
DbUpsertLicense(u, sb, st, rnd) ==
    LET licenseKey == generateLicenseKey(clock, rnd)
        res == upsertLicense(db, u, licenseKey, SubCustomer(sb), sb, st, clock) IN
    /\ Len(hist) < MaxHist
    /\ db' = res.table
    /\ hist' = Append(hist, [op |-> "upsertLicense", userId |-> u,
                             customerId |-> SubCustomer(sb), threw |-> res.threw,
                             licenseKey |-> licenseKey, status |-> st])
    /\ UNCHANGED <<clock, subStatus, reqs, licenses, verdict, limiter>>

\* db.updateLicenseStatus(userId, isActive ? 'active' : 'canceled')
DbUpdateLicenseStatus(u, st) ==
    /\ Len(hist) < MaxHist
    /\ db' = updateLicenseStatus(db, u, licenseStatusOf(st), clock)
    /\ hist' = Append(hist, [op |-> "updateLicenseStatus", userId |-> u,
                             customerId |-> Null, threw |-> FALSE,
                             licenseKey |-> NoKey, status |-> st])
    /\ UNCHANGED <<clock, subStatus, reqs, licenses, verdict, limiter>>

DbNext ==
    \/ Tick
    \/ \E u \in Users, sb \in Subs, st \in LicenseStatuses, rnd \in 1..MaxRand :
          DbUpsertLicense(u, sb, st, rnd)
    \/ \E u \in Users, st \in SubStatuses : DbUpdateLicenseStatus(u, st)

SpecDb == DbInit /\ [][DbNext]_vars

(***************************************************************************)
(* The server                                                              *)
(***************************************************************************)
\* licenses.db as the server finds it: rows written through upsertLicense
\* and updateLicenseStatus (expiresAt is never written)
StoredRow(u, c, st) == ArbitraryRow(u, c, st, JsNull)

\* U1 may have subscribed as customer C1 and canceled; U2 may have subscribed
\* as customer C2 or, where U1 has no record, as customer C1 (the payer the
\* checkout session of U1 belongs to, activated under another identity)
StoredTables ==
    {t \in UNION {[D -> [user : Users, customer : Customers,
                         status : LicenseStatuses]] : D \in SUBSET Users} :
        \A u \in DOMAIN t :
            /\ t[u].user = u
            /\ u = "U1" => t[u].customer = "C1"
            /\ u = "U2" => t[u].status = "active"
            /\ u = "U2" /\ "U1" \in DOMAIN t => t[u].customer = "C2"}

Init ==
    /\ \E t \in StoredTables :
          db = [u \in DOMAIN t |-> StoredRow(u, t[u].customer, t[u].status)]
    /\ clock = MsPerSec - 1
    /\ subStatus = [sb \in Subs |-> "active"]
    /\ reqs = IdleReqs
    /\ licenses = UndefinedMap
    /\ hist = <<>>
    /\ verdict = NoVerdict
    /\ limiter = NoLimiter

SuppliedKeys == {NoKey} \cup {StoredKey(u) : u \in Users}

Next ==
    \/ \E u \in Users \cup {Null} : GetLicense(u)
    \/ \E u \in Users \cup {Null}, k \in SuppliedKeys : VerifyLicense(u, k)
    \/ \E ev \in Events, sig \in BOOLEAN : Webhook(ev, sig)
    \/ \E r \in 1..MaxReq : WebhookRetrieved(r)
    \/ \E u \in Users \cup {Null}, k \in SuppliedKeys : PortalSession(u, k)
    \/ \E r \in 1..MaxReq : PortalListedByRef(r)
    \/ \E r \in 1..MaxReq : PortalListedAll(r)
    \/ \E r \in 1..MaxReq : PortalRetrieved(r)
    \/ \E r \in 1..MaxReq : PortalListedSubs(r)
    \/ \E r \in 1..MaxReq : PortalCreated(r)
    \/ \E sid \in SessionIds \cup {Null}, u \in Users \cup {Null} :
          AutoCreateLicense(sid, u)
    \/ \E r \in 1..MaxReq : AutoCreateSession(r)
    \/ \E r \in 1..MaxReq : AutoCreateSubscription(r)
    \/ \E sb \in ChangingSubs, st \in ProviderStatuses : ProviderSetStatus(sb, st)

Spec == Init /\ [][Next]_vars

(***************************************************************************)
(* Claims about the server                                                 *)
(***************************************************************************)
AllDone == \A r \in 1..Len(reqs) : reqs[r].pc = "done"

\* the requests that may create a license: a verified checkout webhook that
\* carries a userId, auto-create-license, the portal-session resolver
Creating(q) ==
    \/ q.kind = "webhook" /\ q.handler = "handleCheckoutCompleted" /\ q.userId # Null
    \/ q.kind = "auto-create" /\ q.userId # Null /\ q.sessionId # Null
    \/ q.kind = "portal" /\ q.userId # Null

\* C2: however license-creating requests for one userId interleave at their
\* awaits, once all requests have finished every licenseKey returned to a
\* caller is the licenseKey stored for that user
C2_OneKeyPerUser ==
    AllDone =>
        \A r \in 1..Len(reqs) :
            reqs[r].resp.licenseKey # NoKey =>
                /\ reqs[r].userId \in DOMAIN db
                /\ db[reqs[r].userId].licenseKey = reqs[r].resp.licenseKey

\* a checkout webhook for a user waits on Stripe while an auto-create request
\* for the same user arrives and is handed a key; both have finished
C2_Witness ==
    /\ AllDone
    /\ Len(reqs) = 2
    /\ Creating(reqs[1]) /\ Creating(reqs[2])
    /\ reqs[1].userId = reqs[2].userId
    /\ reqs[1].calls # <<>>
    /\ reqs[2].concurrent = 1
    /\ reqs[2].resp.licenseKey # NoKey

\* a verified checkout.session.completed delivery in subscription mode with a
\* userId, whose subscription Stripe returned
CheckoutDelivered(q) ==
    /\ q.kind = "webhook" /\ q.sig
    /\ q.event.type = "checkout.session.completed"
    /\ q.userId # Null
    /\ q.pc = "done"
    /\ q.customerId # Null

\* C3: the same verified checkout.session.completed event delivered twice in
\* sequence leaves one record for the userId, active after each delivery, with
\* the same licenseKey after the second delivery as after the first
C3_CheckoutReplay ==
    [][(/\ Len(reqs') \in 1..2
        /\ \A r \in 1..Len(reqs') :
              /\ CheckoutDelivered(reqs'[r])
              /\ reqs'[r].event = reqs'[1].event
              /\ reqs'[r].concurrent = 0)
       => /\ reqs'[1].userId \in DOMAIN db'
          /\ db'[reqs'[1].userId].status = "active"
          /\ (Len(reqs') = 2 /\ reqs'[1].userId \in DOMAIN db) =>
                db'[reqs'[1].userId].licenseKey = db[reqs'[1].userId].licenseKey
      ]_vars

\* request r gets its response in this step
Completes(r) ==
    /\ r \in 1..Len(reqs')
    /\ reqs'[r].pc = "done"
    /\ r > Len(reqs) \/ reqs[r].pc # "done"

\* C4: a verified checkout.session.completed with client_reference_id U1 in
\* subscription mode, Stripe reporting S1 of customer C1, U1 without a record:
\* the webhook is acknowledged and the store holds a record for U1 that is
\* active, of C1 and S1, without expiresAt, under a fresh licenseKey
C4_CheckoutCreates ==
    [][\A r \in 1..Len(reqs') :
          (/\ Completes(r)
           /\ CheckoutDelivered(reqs'[r])
           /\ Session(reqs'[r].event.session).client_reference_id = "U1"
           /\ reqs'[r].subscriptionId = "S1"
           /\ reqs'[r].customerId = "C1"
           /\ reqs'[r].existing = "none")
          => /\ reqs'[r].resp.status = 200
             /\ "U1" \in DOMAIN db'
             /\ db'["U1"].status = "active"
             /\ db'["U1"].stripeCustomerId = "C1"
             /\ db'["U1"].stripeSubscriptionId = "S1"
             /\ db'["U1"].expiresAt = JsNull
             /\ \A u \in DOMAIN db : db[u].licenseKey # db'["U1"].licenseKey
      ]_vars

\* C5: a verified customer.subscription.deleted for customer C1, whose record
\* is U1's, sets that record's status to canceled and leaves its licenseKey,
\* customerId and subscriptionId, and every other record, as they were
C5_DeletedCancels ==
    [][\A r \in 1..Len(reqs') :
          (/\ Completes(r)
           /\ reqs'[r].kind = "webhook" /\ reqs'[r].sig
           /\ reqs'[r].event.type = "customer.subscription.deleted"
           /\ SubCustomer(reqs'[r].event.sub) = "C1"
           /\ "U1" \in DOMAIN db
           /\ db["U1"].stripeCustomerId = "C1")
          => /\ DOMAIN db' = DOMAIN db
             /\ db'["U1"].status = "canceled"
             /\ db'["U1"].licenseKey = db["U1"].licenseKey
             /\ db'["U1"].stripeCustomerId = db["U1"].stripeCustomerId
             /\ db'["U1"].stripeSubscriptionId = db["U1"].stripeSubscriptionId
             /\ \A u \in DOMAIN db \ {"U1"} : db'[u] = db[u]
      ]_vars

\* C6: the subscription is canceled at Stripe, its "updated (canceled)" event
\* is delivered first and the checkout.session.completed that correlates the
\* customer with the user second: with both applied the user's record is
\* canceled
C6_CanceledBeforeCheckout ==
    (/\ Len(reqs) = 2
     /\ reqs[1].kind = "webhook" /\ reqs[1].sig /\ reqs[1].pc = "done"
     /\ reqs[1].event.type = "customer.subscription.updated"
     /\ reqs[1].event.status = "canceled"
     /\ CheckoutDelivered(reqs[2])
     /\ reqs[2].concurrent = 0
     /\ reqs[2].subscriptionId = reqs[1].event.sub
     /\ subStatus[reqs[1].event.sub] = "canceled")
    => /\ reqs[2].userId \in DOMAIN db
       /\ db[reqs[2].userId].status = "canceled"

\* C7: for a userId without a local record whose paid subscription-mode
\* checkout session Stripe lists, the resolver comes back with an active
\* license carrying the customer and the subscription of that session
C7_ResolvesFromSession ==
    [][\A r \in 1..Len(reqs) :
          (/\ reqs[r].kind = "portal"
           /\ reqs[r].existing = "none"
           /\ reqs[r].pc = "portal:retrieve"
           /\ reqs'[r].customerId # Null)
          => /\ reqs'[r].pc = "portal:create"
             /\ reqs[r].userId \in DOMAIN db'
             /\ db'[reqs[r].userId].status = "active"
             /\ db'[reqs[r].userId].stripeCustomerId = reqs'[r].customerId
             /\ db'[reqs[r].userId].stripeSubscriptionId = reqs[r].subscriptionId
      ]_vars

\* C10: a webhook whose signature does not verify is rejected with an error
\* status, no handler is dispatched, no Stripe call is made and the license
\* store is as it was
C10_RejectedUnverified ==
    [][\A r \in 1..Len(reqs') :
          (r > Len(reqs) /\ reqs'[r].kind = "webhook" /\ ~reqs'[r].sig)
          => /\ reqs'[r].pc = "done"
             /\ reqs'[r].resp.status = 400
             /\ reqs'[r].handler = "none"
             /\ reqs'[r].calls = <<>>
             /\ db' = db
      ]_vars

\* an unverified checkout.session.completed for a user who has a record has
\* been answered 400
C10_Witness ==
    \E r \in 1..Len(reqs) :
        /\ reqs[r].kind = "webhook" /\ ~reqs[r].sig
        /\ reqs[r].event.type = "checkout.session.completed"
        /\ CheckoutUserId(Session(reqs[r].event.session)) \in DOMAIN db
        /\ reqs[r].pc = "done"
        /\ reqs[r].resp.status = 400

Discovers(r) ==
    /\ r \in 1..Len(reqs)
    /\ reqs[r].kind = "portal"
    /\ reqs[r].existing = "none"
    /\ reqs[r].customerId = Null
    /\ reqs'[r].customerId # Null

\* C12: when the resolver discovers a customerId that belongs to the record
\* of a different userId, it goes on with that existing record and creates
\* none: the store is unchanged, the requesting userId stays without a record
C12_PrefersExistingRecord ==
    [][\A r \in 1..Len(reqs) :
          (/\ Discovers(r)
           /\ \E v \in DOMAIN db :
                 /\ v # reqs[r].userId
                 /\ db[v].stripeCustomerId = reqs'[r].customerId)
          => /\ reqs'[r].pc = "portal:create"
             /\ db' = db
             /\ reqs[r].userId \notin DOMAIN db'
      ]_vars

\* C13: a resolver call during which a Stripe lookup failed is not answered
\* with the absence result; "No active subscription found" is reported only
\* when every lookup that was attempted succeeded
C13_FailureIsNotAbsence ==
    \A r \in 1..Len(reqs) :
        (/\ reqs[r].kind = "portal"
         /\ reqs[r].pc = "done"
         /\ reqs[r].failed)
        => /\ reqs[r].resp # Response(404, "No active subscription found", NoKey)
           /\ reqs[r].resp.status >= 500

\* C14: when stripe.subscriptions.retrieve fails while a verified
\* checkout.session.completed is handled, the webhook answers with a failure
\* status and the license store is as it was
C14_RetrievalFailureSurfaces ==
    [][\A r \in 1..Len(reqs) :
          (/\ Waiting(r, "checkout:retrieve")
           /\ reqs'[r].failed)
          => /\ reqs'[r].pc = "done"
             /\ reqs'[r].resp.status = 500
             /\ db' = db
      ]_vars

\* a verified checkout.session.completed for a user without a record, whose
\* subscription retrieval failed, has been answered 500
C14_Witness ==
    \E r \in 1..Len(reqs) :
        /\ reqs[r].kind = "webhook" /\ reqs[r].sig
        /\ reqs[r].handler = "handleCheckoutCompleted"
        /\ reqs[r].calls = <<"subscriptions.retrieve">>
        /\ reqs[r].failed
        /\ reqs[r].userId \notin DOMAIN db
        /\ reqs[r].pc = "done"
        /\ reqs[r].resp.status = 500

\* what Stripe reports makes the auto-create request q not eligible: the
\* session is not paid, or not in subscription mode, or (once the subscription
\* is being retrieved) the subscription is neither active nor trialing
NotEligible(q) ==
    \/ Session(q.sessionId).payment_status # "paid"
    \/ Session(q.sessionId).mode # "subscription"
    \/ /\ q.pc = "auto:sub"
       /\ subStatus[q.subscriptionId] \notin {"active", "trialing"}

\* C15: auto-create-license for a user without a valid license answers with
\* a not-eligible result and creates no record whenever the session is not
\* paid, or not in subscription mode, or the subscription is neither active
\* nor trialing; a record is created only when all three checks pass
C15_NotEligibleCreatesNothing ==
    [][\A r \in 1..Len(reqs) :
          (/\ reqs[r].kind = "auto-create"
           /\ reqs[r].pc # "done"
           /\ reqs'[r] # reqs[r]
           /\ ~reqs'[r].failed)
          => /\ NotEligible(reqs[r]) =>
                   /\ reqs'[r].pc = "done"
                   /\ reqs'[r].resp.status = 400
                   /\ db' = db
             /\ (db' # db \/ reqs'[r].resp.licenseKey # NoKey) =>
                   /\ reqs[r].pc = "auto:sub"
                   /\ ~NotEligible(reqs[r])
      ]_vars

\* a paid subscription-mode session whose subscription is canceled: the
\* request of a user without a record has been answered 400
C15_Witness ==
    \E r \in 1..Len(reqs) :
        /\ reqs[r].kind = "auto-create"
        /\ reqs[r].pc = "done"
        /\ ~reqs[r].failed
        /\ reqs[r].existing = "none"
        /\ reqs[r].calls = <<"checkout.sessions.retrieve", "subscriptions.retrieve">>
        /\ reqs[r].resp = Response(400, "Subscription status is not active", NoKey)
        /\ reqs[r].userId \notin DOMAIN db

\* C16: every license record an operation has created is in the durable store
\* (the licenses table) by the time the operation has returned, with the same
\* licenseKey and status, so that it outlives the memory of the process
C16_CreatedIsDurable ==
    \A i \in 1..Len(licenses.entries) :
        LET e == licenses.entries[i] IN
        /\ e.userId \in DOMAIN db
        /\ getLicenseByUserId(db, e.userId).licenseKey = e.licenseKey
        /\ getLicenseByUserId(db, e.userId).status = e.status

\* the call of database.js made in this step
DbCall == hist'[Len(hist')]

DbCalls(op) == Len(hist') = Len(hist) + 1 /\ DbCall.op = op

\* the key of the call is held by the row of another userId
KeyTaken ==
    \E v \in DOMAIN db : v # DbCall.userId /\ db[v].licenseKey = DbCall.licenseKey

\* C17: the store holds one record per userId: creating a license for a
\* userId that has a record updates that record in place and adds no row; for
\* a userId without a record it adds exactly that row
C17_UpsertInPlace ==
    [][DbCalls("upsertLicense") =>
          /\ ~KeyTaken => ~DbCall.threw
          /\ ~DbCall.threw =>
                /\ DOMAIN db' = DOMAIN db \cup {DbCall.userId}
                /\ Cardinality(DOMAIN db') =
                      Cardinality(DOMAIN db)
                        + (IF DbCall.userId \in DOMAIN db THEN 0 ELSE 1)
                /\ db'[DbCall.userId].licenseKey = DbCall.licenseKey
                /\ db'[DbCall.userId].stripeCustomerId = DbCall.customerId
                /\ db'[DbCall.userId].status = DbCall.status
                /\ \A v \in DOMAIN db \ {DbCall.userId} : db'[v] = db[v]
      ]_vars

\* a license was created twice for one userId, under two keys: the table has
\* one row, with the second key
C17_Witness ==
    /\ Len(hist) = 2
    /\ hist[1].op = "upsertLicense" /\ ~hist[1].threw
    /\ hist[2].op = "upsertLicense" /\ ~hist[2].threw
    /\ hist[1].userId = hist[2].userId
    /\ hist[1].licenseKey # hist[2].licenseKey
    /\ DOMAIN db = {hist[2].userId}
    /\ db[hist[2].userId].licenseKey = hist[2].licenseKey

\* C18: every stored record's status is active or canceled
C18_StatusActiveOrCanceled ==
    \A u \in DOMAIN db : db[u].status \in {"active", "canceled"}

\* a record was created and then updated for a subscription Stripe reports as
\* past_due: it is stored as canceled
C18_Witness ==
    /\ Len(hist) = 2
    /\ hist[1].op = "upsertLicense" /\ ~hist[1].threw
    /\ hist[2].op = "updateLicenseStatus"
    /\ hist[2].userId = hist[1].userId
    /\ hist[2].status = "past_due"
    /\ db[hist[2].userId].status = "canceled"

\* C19: no two stored records have the same licenseKey, whatever creations
\* happen, several within one clock tick included
C19_UniqueLicenseKey ==
    \A u \in DOMAIN db, v \in DOMAIN db :
        u # v => db[u].licenseKey # db[v].licenseKey

\* two creations for two userIds in one clock tick produced the same key: the
\* second write failed and the table holds the first record only
C19_Witness ==
    /\ Len(hist) = 2
    /\ hist[1].op = "upsertLicense" /\ ~hist[1].threw
    /\ hist[2].op = "upsertLicense" /\ hist[2].threw
    /\ hist[1].userId # hist[2].userId
    /\ hist[1].licenseKey = hist[2].licenseKey
    /\ DOMAIN db = {hist[1].userId}

C21_StatusOfMissingIsNoOp ==
    [][(DbCalls("updateLicenseStatus") /\ DbCall.userId \notin DOMAIN db)
       => /\ db' = db
          /\ ~DbCall.threw
      ]_vars

\* a status change arrived for U2 while only U1 has a record
C21_Witness ==
    /\ Len(hist) = 2
    /\ hist[1].op = "upsertLicense" /\ ~hist[1].threw /\ hist[1].userId = "U1"
    /\ hist[2].op = "updateLicenseStatus" /\ hist[2].userId = "U2"
    /\ DOMAIN db = {"U1"}

\* C22: a status transition applied a second time, with the same userId and
\* status, leaves status, licenseKey, customerId and subscriptionId of the
\* record as the first application left them, and every other record too
C22_StatusIdempotent ==
    [][(/\ DbCalls("updateLicenseStatus")
        /\ Len(hist) >= 1
        /\ hist[Len(hist)].op = "updateLicenseStatus"
        /\ hist[Len(hist)].userId = DbCall.userId
        /\ hist[Len(hist)].status = DbCall.status)
       => /\ DOMAIN db' = DOMAIN db
          /\ \A u \in DOMAIN db :
                /\ db'[u].status = db[u].status
                /\ db'[u].licenseKey = db[u].licenseKey
                /\ db'[u].stripeCustomerId = db[u].stripeCustomerId
                /\ db'[u].stripeSubscriptionId = db[u].stripeSubscriptionId
      ]_vars

\* the stored record of U1 was canceled by one event and the same transition
\* was applied again: it is canceled, under the key it had
C22_Witness ==
    /\ Len(hist) = 2
    /\ hist[1].op = "updateLicenseStatus" /\ hist[2].op = "updateLicenseStatus"
    /\ hist[1].userId = "U1" /\ hist[2].userId = "U1"
    /\ hist[1].status = "canceled" /\ hist[2].status = "canceled"
    /\ "U1" \in DOMAIN db
    /\ db["U1"].status = "canceled"
    /\ db["U1"].licenseKey = StoredKey("U1")

(***************************************************************************)
(* Claims about the webhook handlers                                       *)
(***************************************************************************)
\* request r is a verified subscription event answered in this step
SubscriptionEventHandled(r) ==
    /\ Completes(r)
    /\ reqs'[r].kind = "webhook" /\ reqs'[r].sig
    /\ reqs'[r].event.type \in {"customer.subscription.updated",
                                "customer.subscription.deleted"}

\* the userIds whose record carries the customer of the event of request r
RecordsOfEvent(r) ==
    {u \in DOMAIN db :
        db[u].stripeCustomerId = SubCustomer(reqs'[r].event.sub)}

\* C23: a verified customer.subscription.updated that reports active or
\* trialing for a customer whose record is canceled sets the record back to
\* active and keeps its licenseKey
C23_ResubscriptionAccepted ==
    [][\A r \in 1..Len(reqs') :
          (/\ SubscriptionEventHandled(r)
           /\ reqs'[r].event.type = "customer.subscription.updated"
           /\ reqs'[r].event.status \in {"active", "trialing"})
          => \A u \in RecordsOfEvent(r) :
                db[u].status = "canceled" =>
                    /\ u \in DOMAIN db'
                    /\ db'[u].status = "active"
                    /\ db'[u].licenseKey = db[u].licenseKey
      ]_vars

\* C24: after a verified subscription updated/deleted event whose customer
\* has a record, the record is active if the event reports active or
\* trialing, and canceled for every other status
C24_StatusFollowsEvent ==
    [][\A r \in 1..Len(reqs') :
          SubscriptionEventHandled(r)
          => \A u \in RecordsOfEvent(r) :
                /\ u \in DOMAIN db'
                /\ db'[u].status =
                      IF reqs'[r].event.status \in {"active", "trialing"}
                      THEN "active" ELSE "canceled"
      ]_vars

\* C25: a verified subscription updated/deleted event whose customer has no
\* record is dropped: the store is as it was and the handler completes
\* without an error
C25_UnknownCustomerDropped ==
    [][\A r \in 1..Len(reqs') :
          (SubscriptionEventHandled(r) /\ RecordsOfEvent(r) = {})
          => /\ db' = db
             /\ reqs'[r].resp = Response(200, "received", NoKey)
      ]_vars

\* request r is a verified checkout.session.completed received in this step
CheckoutReceived(r) ==
    /\ r = Len(reqs') /\ r > Len(reqs)
    /\ reqs'[r].kind = "webhook" /\ reqs'[r].sig
    /\ reqs'[r].event.type = "checkout.session.completed"

\* C26 as stated: a verified checkout.session.completed whose
\* client_reference_id is absent, or whose mode is not subscription, is
\* inert: no Stripe call is made and the store is as it was
C26_InertWithoutReference ==
    [][\A r \in 1..Len(reqs') :
          (/\ CheckoutReceived(r)
           /\ \/ Session(reqs'[r].event.session).client_reference_id = Null
              \/ Session(reqs'[r].event.session).mode # "subscription")
          => /\ reqs'[r].pc = "done"
             /\ reqs'[r].calls = <<>>
             /\ db' = db
      ]_vars

\* C26 amended: a verified checkout.session.completed that carries neither
\* client_reference_id nor metadata.userId, or whose mode is not
\* subscription, is inert: no Stripe call is made and the store is as it was
C26_InertWithoutUserId ==
    [][\A r \in 1..Len(reqs') :
          (/\ CheckoutReceived(r)
           /\ \/ /\ Session(reqs'[r].event.session).client_reference_id = Null
                 /\ Session(reqs'[r].event.session).metaUserId = Null
              \/ Session(reqs'[r].event.session).mode # "subscription")
          => /\ reqs'[r].pc = "done"
             /\ reqs'[r].calls = <<>>
             /\ reqs'[r].resp = Response(200, "received", NoKey)
             /\ db' = db
      ]_vars

\* a subscription-mode session without any userId and a payment-mode session
\* with a userId have both been delivered and acknowledged without a call
C26_Witness ==
    /\ Len(reqs) = 2
    /\ \A r \in 1..2 :
          /\ reqs[r].kind = "webhook" /\ reqs[r].sig
          /\ reqs[r].handler = "handleCheckoutCompleted"
          /\ reqs[r].pc = "done"
          /\ reqs[r].calls = <<>>
    /\ CheckoutUserId(Session(reqs[1].event.session)) = Null
    /\ Session(reqs[1].event.session).mode = "subscription"
    /\ CheckoutUserId(Session(reqs[2].event.session)) # Null
    /\ Session(reqs[2].event.session).mode # "subscription"

\* C27: a verified checkout.session.completed for a userId whose record is
\* active changes nothing in the store, whatever subscription or customer the
\* event names, and is acknowledged
C27_ActiveRecordUntouched ==
    [][\A r \in 1..Len(reqs) :
          (/\ Waiting(r, "checkout:retrieve")
           /\ reqs'[r] # reqs[r]
           /\ reqs[r].userId \in DOMAIN db
           /\ db[reqs[r].userId].status = "active")
          => /\ db' = db
             /\ ~reqs'[r].failed =>
                   reqs'[r].resp = Response(200, "received", NoKey)
      ]_vars

\* the event named a customer other than the one of the active record of
\* its userId and was acknowledged
C27_Witness ==
    \E r \in 1..Len(reqs) :
        /\ CheckoutDelivered(reqs[r])
        /\ reqs[r].existing = "active"
        /\ reqs[r].userId \in DOMAIN db
        /\ db[reqs[r].userId].stripeCustomerId # reqs[r].customerId
        /\ db[reqs[r].userId].status = "active"
        /\ reqs[r].resp = Response(200, "received", NoKey)

AfterReconciled(r, r2) ==
    /\ r < r2
    /\ reqs[r].kind = "auto-create"
    /\ reqs[r].pc = "done"
    /\ reqs[r].resp.status = 200
    /\ reqs[r2].concurrent = 0
    /\ reqs[r2].pc = "done"
    /\ reqs[r2].userId = reqs[r].userId

\* C29: after auto-create-license answered success with licenseKey K for
\* userId U, verify-license(U, K) reports valid and get-license(U) returns K
C29_ReconciledKeyVerifies ==
    \A r \in 1..Len(reqs), r2 \in 1..Len(reqs) :
        AfterReconciled(r, r2)
        => /\ reqs[r2].kind = "get-license"
              => reqs[r2].resp = Response(200, "licenseKey", reqs[r].resp.licenseKey)
           /\ (reqs[r2].kind = "verify-license"
               /\ reqs[r2].licenseKey = reqs[r].resp.licenseKey)
              => reqs[r2].resp = Response(200, "valid: true", NoKey)

\* the key of an answered auto-create-license was presented and found valid
C29_Witness ==
    \E r \in 1..Len(reqs), r2 \in 1..Len(reqs) :
        /\ AfterReconciled(r, r2)
        /\ reqs[r].resp.licenseKey # NoKey
        /\ reqs[r2].kind = "verify-license"
        /\ reqs[r2].licenseKey = reqs[r].resp.licenseKey
        /\ reqs[r2].resp = Response(200, "valid: true", NoKey)

\* verify-license answered that the presented key is valid
ReportedValid == verdict.response = Response(200, "valid: true", NoKey)

\* C30: verify-license(userId, licenseKey) reports valid exactly when a record
\* exists for that userId, its stored licenseKey equals the presented key and
\* the record is entitled (isValidLicense); a key that belongs to the record
\* of a different userId is reported as not valid
C30_ValidIffOwnEntitledKey ==
    verdict.op = "verify-license" =>
        /\ ReportedValid
           <=> /\ verdict.userId \in DOMAIN db
               /\ db[verdict.userId].licenseKey = verdict.licenseKey
               /\ isValidLicense(rowToLicense(db[verdict.userId]), verdict.now)
        /\ (\E u \in DOMAIN db \ {verdict.userId} :
                db[u].licenseKey = verdict.licenseKey)
           => ~ReportedValid

\* the key of the entitled record of another userId was presented by a
\* userId with an entitled record of its own, and was reported not valid
C30_Witness ==
    /\ verdict.op = "verify-license"
    /\ verdict.userId \in DOMAIN db
    /\ isValidLicense(rowToLicense(db[verdict.userId]), verdict.now)
    /\ \E u \in DOMAIN db \ {verdict.userId} :
          /\ db[u].licenseKey = verdict.licenseKey
          /\ isValidLicense(rowToLicense(db[u]), verdict.now)
    /\ verdict.response = Response(200, "valid: false", NoKey)

\* the request received by this step, if the step receives one
Received == reqs'[Len(reqs')]

ReadOnlyKinds == {"get-license", "verify-license"}

\* C31: get-license and verify-license never modify the license store and
\* never call the billing provider, whatever their arguments and whatever
\* they answer: the step that receives one answers it, leaves the store as
\* it is and records no Stripe call
C31_LookupsAreReadOnly ==
    [][(Len(reqs') = Len(reqs) + 1 /\ Received.kind \in ReadOnlyKinds)
       => /\ db' = db
          /\ subStatus' = subStatus
          /\ Received.calls = <<>>
          /\ Received.pc = "done"
      ]_vars

\* both lookups were answered, one with the key and one with valid: true,
\* and no Stripe call was made
C31_Witness ==
    /\ Len(reqs) = 2
    /\ reqs[1].kind = "get-license"
    /\ reqs[1].resp.status = 200
    /\ reqs[2].kind = "verify-license"
    /\ reqs[2].resp = Response(200, "valid: true", NoKey)
    /\ \A r \in 1..2 : reqs[r].calls = <<>> /\ reqs[r].pc = "done"

\* C32: requests to /api/webhook are never counted against or rejected by
\* the API rate limiter, however many arrive, while a request to another
\* /api/ route is rejected once its IP has made more than 100 requests in
\* the window
C32_WebhookNeverLimited ==
    LET last == limiter.last IN
    /\ last.path = WebhookPath => ~last.counted /\ last.status # 429
    /\ (Mounted(last.path) /\ last.path # WebhookPath)
       => /\ last.counted
          /\ last.status = 429 <=> last.hits > apiLimiter_max

\* the place of a Stripe call among the strategies of the resolver: session
\* correlation, broad session scan, subscription scan; the portal session is
\* created after them
StrategyOf(call) ==
    CASE call = "checkout.sessions.list(client_reference_id)" -> 3
      [] call = "checkout.sessions.list" -> 4
      [] call = "subscriptions.list" -> 5
      [] call = "billingPortal.sessions.create" -> 6
      [] OTHER -> 0

\* the calls of the strategies are made in the order of the strategies; the
\* retrieval of a subscription follows a session list
InStrategyOrder(calls) ==
    \A i \in 1..Len(calls), j \in 1..Len(calls) :
        /\ (i < j /\ StrategyOf(calls[i]) # 0 /\ StrategyOf(calls[j]) # 0)
           => StrategyOf(calls[i]) < StrategyOf(calls[j])
        /\ calls[j] = "subscriptions.retrieve"
           => j > 1 /\ StrategyOf(calls[j - 1]) \in {3, 4}

StrategyCalls(calls) == SelectSeq(calls, LAMBDA c : c # "billingPortal.sessions.create")

\* C33: the resolver tries direct userId lookup, supplied-licenseKey lookup,
\* session correlation, broad session scan and subscription scan in this
\* order and stops at the first that succeeds: once a strategy has produced
\* a license or a customerId, no call of a later strategy is made
C33_StopsAtFirstSuccess ==
    [][\A r \in 1..Len(reqs') :
          reqs'[r].kind = "portal" =>
             /\ InStrategyOrder(reqs'[r].calls)
             \* a license found in the store: no strategy of Stripe is tried
             /\ reqs'[r].existing \in LicenseStatuses
                => StrategyCalls(reqs'[r].calls) = <<>>
             \* the record of the userId itself: the supplied key is not used
             /\ (reqs'[r].userId \in DOMAIN db /\ reqs'[r].existing \in LicenseStatuses)
                => reqs'[r].customerId = db[reqs'[r].userId].stripeCustomerId
             \* a session list that threw leads to the subscription scan
             /\ (r <= Len(reqs) /\ reqs'[r] # reqs[r]
                 /\ reqs[r].pc \in {"portal:listByRef", "portal:listAll"}
                 /\ reqs'[r].failed)
                => reqs'[r].pc = "portal:listSubs"
             \* a customerId produced from a session: no later strategy
             /\ (r <= Len(reqs) /\ Waiting(r, "portal:retrieve")
                 /\ reqs'[r] # reqs[r] /\ ~reqs'[r].failed)
                => /\ reqs'[r].customerId # Null
                   /\ StrategyCalls(reqs'[r].calls) = StrategyCalls(reqs[r].calls)
      ]_vars

\* session correlation gave a customerId and the resolver answered without
\* the broad session scan and without the subscription scan
C33_Witness ==
    \E r \in 1..Len(reqs) :
        /\ reqs[r].kind = "portal"
        /\ reqs[r].pc = "done"
        /\ reqs[r].customerId # Null
        /\ ~reqs[r].failed
        /\ reqs[r].calls = <<"checkout.sessions.list(client_reference_id)",
                             "subscriptions.retrieve">>

\* the checkout sessions whose client_reference_id is userId
CorrelatedSessions(userId) ==
    {sid \in SessionIds : Session(sid).client_reference_id = userId}

PaidSessions(userId) ==
    {sid \in CorrelatedSessions(userId) : Session(sid).payment_status = "paid"}

\* C34: in session correlation, when Stripe returns several checkout
\* sessions whose client_reference_id is the userId, the resolver takes the
\* subscription of a paid session if there is one, and of a session that is
\* not paid only when none is paid
C34_PaidSessionPreferred ==
    [][\A r \in 1..Len(reqs) :
          (/\ Waiting(r, "portal:listByRef")
           /\ reqs'[r] # reqs[r]
           /\ ~reqs'[r].failed
           /\ CorrelatedSessions(reqs[r].userId) # {})
          => LET from == IF PaidSessions(reqs[r].userId) # {}
                         THEN PaidSessions(reqs[r].userId)
                         ELSE CorrelatedSessions(reqs[r].userId) IN
             \E sid \in from :
                /\ reqs'[r].subscriptionId = Session(sid).subscription
                /\ Session(sid).subscription # Null
                   => reqs'[r].pc = "portal:retrieve"
      ]_vars

\* the list began with a session of the user that is not paid, and the
\* subscription of the paid one behind it was taken
C34_Witness ==
    \E r \in 1..Len(reqs) :
        /\ reqs[r].kind = "portal"
        /\ reqs[r].calls # <<>>
        /\ reqs[r].calls[1] = "checkout.sessions.list(client_reference_id)"
        /\ Session(SessionList[1]).client_reference_id = reqs[r].userId
        /\ Session(SessionList[1]).payment_status # "paid"
        /\ \E sid \in PaidSessions(reqs[r].userId) :
              /\ Session(sid).subscription # Session(SessionList[1]).subscription
              /\ reqs[r].subscriptionId = Session(sid).subscription

\* request r is answered by this step
Answered(r) ==
    /\ r \in 1..Len(reqs')
    /\ reqs'[r].pc = "done"
    /\ r \in 1..Len(reqs) => reqs[r].pc # "done"

KeyOwners(licenseKey) == {u \in DOMAIN db : db[u].licenseKey = licenseKey}

\* request r of the resolver names a userId without a record and supplies
\* the licenseKey of a stored record
ResolvesByKey(q) ==
    /\ q.kind = "portal"
    /\ q.userId # Null
    /\ q.userId \notin DOMAIN db
    /\ KeyOwners(q.licenseKey) # {}

\* C36: when the direct userId lookup misses and the caller supplies a
\* licenseKey that belongs to a stored record, the resolver resolves to that
\* record without a lookup at Stripe and without creating or changing any
\* record
C36_ResolvesBySuppliedKey ==
    [][\A r \in 1..Len(reqs') :
          (/\ ResolvesByKey(reqs'[r])
           /\ r \in 1..Len(reqs) => reqs'[r] # reqs[r])
          => /\ \E u \in KeyOwners(reqs'[r].licenseKey) :
                   /\ reqs'[r].existing = db[u].status
                   /\ reqs'[r].customerId = db[u].stripeCustomerId
             /\ StrategyCalls(reqs'[r].calls) = <<>>
             /\ db' = db
             /\ licenses' = licenses
      ]_vars

\* a userId without a record supplied the key of the record of another
\* userId and was given the portal of that record's customer
C36_Witness ==
    \E r \in 1..Len(reqs) :
        /\ ResolvesByKey(reqs[r])
        /\ reqs[r].pc = "done"
        /\ reqs[r].calls = <<"billingPortal.sessions.create">>
        /\ reqs[r].resp = Response(200, "url", NoKey)

\* C37: auto-create-license for a userId that already has a valid (active,
\* unexpired) license returns the licenseKey of that license, makes no call
\* to Stripe and leaves the store unchanged
C37_ValidLicenseShortCircuits ==
    [][(/\ Len(reqs') = Len(reqs) + 1
        /\ Received.kind = "auto-create"
        /\ Received.sessionId # Null
        /\ Received.userId \in DOMAIN db
        /\ isValidLicense(rowToLicense(db[Received.userId]), clock))
       => /\ Received.resp = Response(200, "License already exists",
                                      db[Received.userId].licenseKey)
          /\ Received.pc = "done"
          /\ Received.calls = <<>>
          /\ db' = db
          /\ licenses' = licenses
      ]_vars

\* the request was answered with the stored key, a paid session of another
\* subscription notwithstanding
C37_Witness ==
    \E r \in 1..Len(reqs) :
        /\ reqs[r].kind = "auto-create"
        /\ reqs[r].pc = "done"
        /\ reqs[r].userId \in DOMAIN db
        /\ reqs[r].sessionId # Null
        /\ Session(reqs[r].sessionId).payment_status = "paid"
        /\ SubCustomer(Session(reqs[r].sessionId).subscription)
              # db[reqs[r].userId].stripeCustomerId
        /\ reqs[r].calls = <<>>
        /\ reqs[r].resp = Response(200, "License already exists",
                                   db[reqs[r].userId].licenseKey)

\* C38: a verified checkout.session.completed for a userId whose record is
\* canceled replaces the record: status active, the customerId and the
\* subscriptionId of the event, a freshly generated licenseKey; the
\* licenseKey issued before no longer verifies for the user
C38_CanceledIsReplaced ==
    [][\A r \in 1..Len(reqs') :
          (/\ Completes(r)
           /\ CheckoutDelivered(reqs'[r])
           /\ reqs'[r].existing = "canceled"
           /\ reqs'[r].userId \in DOMAIN db)
          => LET u == reqs'[r].userId IN
             /\ reqs'[r].resp.status = 200
             /\ u \in DOMAIN db'
             /\ db'[u].status = "active"
             /\ db'[u].stripeCustomerId = reqs'[r].customerId
             /\ db'[u].stripeSubscriptionId = reqs'[r].subscriptionId
             /\ db'[u].licenseKey # db[u].licenseKey
             /\ VerifyLicenseResponse(db', u, db[u].licenseKey, clock').body
                   # "valid: true"
      ]_vars

\* C39: a verified webhook event of a type other than
\* checkout.session.completed, customer.subscription.updated and
\* customer.subscription.deleted is acknowledged as ok with no store change
\* and no call to Stripe
C39_OtherEventsAcknowledged ==
    [][(/\ Len(reqs') = Len(reqs) + 1
        /\ Received.kind = "webhook"
        /\ Received.sig
        /\ Received.event \in OtherEvents)
       => /\ Received.resp = Response(200, "received", NoKey)
          /\ Received.pc = "done"
          /\ Received.calls = <<>>
          /\ db' = db
          /\ licenses' = licenses
      ]_vars

\* an event that names the subscription of a stored record, of a type the
\* server does not handle, was acknowledged
C39_Witness ==
    \E r \in 1..Len(reqs) :
        /\ reqs[r].kind = "webhook"
        /\ reqs[r].sig
        /\ reqs[r].event \in OtherEvents
        /\ reqs[r].event.sub # Null
        /\ \E u \in DOMAIN db :
              db[u].stripeSubscriptionId = reqs[r].event.sub
        /\ reqs[r].calls = <<>>
        /\ reqs[r].resp = Response(200, "received", NoKey)

\* the Stripe calls one run of the resolver can make: two session lists, one
\* retrieval, two subscription lists, the creation of the portal session
MaxPortalCalls == 6

PortalPositions ==
    {"portal:listByRef", "portal:listAll", "portal:retrieve",
     "portal:listSubs", "portal:create", "done"}

\* C40: every run of the resolver ends with exactly one response after a
\* bounded number of Stripe calls, never looping and never repeating a call
\* that failed, and every list call it makes carries a fixed page limit of
\* at most 100.  Each step of a run either makes one more call or gives the
\* response, a run that waits always waits for an answer of Stripe, and a
\* response once given stays.
C40_BoundedSingleResponse ==
    [][\A r \in 1..Len(reqs') :
          reqs'[r].kind = "portal" =>
             LET q == reqs'[r] IN
             /\ Len(q.calls) <= MaxPortalCalls
             /\ \A i \in 1..Len(q.calls), j \in 1..Len(q.calls) :
                   i # j => q.calls[i] # q.calls[j]
             /\ \A i \in 1..Len(q.calls) : PageLimit(q.calls[i]) <= 100
             /\ q.pc \in PortalPositions
             /\ q.pc = "done" <=> q.resp # NoResponse
             /\ (r \in 1..Len(reqs) /\ reqs[r].pc = "done") => q = reqs[r]
             /\ (r \in 1..Len(reqs) /\ q # reqs[r])
                => \/ q.pc = "done" /\ q.calls = reqs[r].calls
                   \/ /\ q.pc # "done"
                      /\ Len(q.calls) = Len(reqs[r].calls) + 1
                      /\ SubSeq(q.calls, 1, Len(reqs[r].calls)) = reqs[r].calls
      ]_vars

\* the longest run: both session lists, a retrieval that failed, the
\* subscription scan, then the response
C40_Witness ==
    \E r \in 1..Len(reqs) :
        /\ reqs[r].kind = "portal"
        /\ reqs[r].pc = "done"
        /\ reqs[r].failed
        /\ reqs[r].calls = <<"checkout.sessions.list(client_reference_id)",
                             "checkout.sessions.list",
                             "subscriptions.retrieve",
                             "subscriptions.list">>

====
